---- MODULE Spec2Model ----
(***************************************************************************)
(* photorename: rename the photos of one flat directory to a name derived  *)
(* from their capture time (main.go).                                      *)
(*                                                                         *)
(* A file name is a sequence of tokens: a stem token, then any number of   *)
(* duplicateSuffix tokens, then (optionally) an extension token that       *)
(* starts with a dot.  String concatenation is \o on the sequences.        *)
(***************************************************************************)
EXTENDS Integers, Sequences, FiniteSets, TLC

VARIABLES
    dir,              \* the directory: current name -> the file (named by its original name)
    dir0,             \* the directory as it was when the run started
    exifOut,          \* <<>>, or <<the result of cmd.Output() for fileInfos[idx]>>
    dryRun,           \* args.DryRun
    pc,               \* the loop of main() the run is in
    fatal,            \* "none", or why the process panicked / log.Fatalf'ed
    fileInfos,        \* os.ReadDir result
    idx,              \* index of the current loop
    finalFilenames,   \* StringSet
    fileRenames,      \* []*PhotoRename
    metadataRenames,  \* []*PhotoRename
    renameLog,        \* the "Renaming" / "DRY RUN" lines logged, as <<old, new>>
    renameErrs,       \* indices of fileRenames whose os.Rename returned an error
    ioErrs            \* number of I/O errors the environment has injected

vars == <<dir, dir0, exifOut, dryRun, pc, fatal, fileInfos, idx, finalFilenames,
          fileRenames, metadataRenames, renameLog, renameErrs, ioErrs>>

----------------------------------------------------------------------------
(* Bounds of the model *)

MaxFiles == 3
MaxDash == 1
MaxIoErrors == 1

----------------------------------------------------------------------------
(* Constants of the program *)

duplicateSuffix == "-"
metadataExtension == "xmp"
pictureExtensionsWhitelist == {".jpeg", ".jpg", ".cr2", ".cr3"}

\* Capture times are whole seconds 0, 1 of 2021-05-01 10:00; time.Format with
\* dateTimeLayout prints the wall clock of the time's own zone.
dateTimeLayout == <<"2021-05-01_10-00-00", "2021-05-01_10-00-01">>

Seconds == 0 .. (Len(dateTimeLayout) - 1)

\* The extensions directory entries are drawn from.
Extensions == {".jpg", ".JPG", ".xmp"}

\* Byte order of the tokens ('-' < '.' < digits < upper case < '_' < lower case).
TokenOrder == <<"-", ".CR2", ".JPG", ".cr2", ".jpg", ".xmp",
                "2021-05-01_10-00-00", "2021-05-01_10-00-01", "IMG_0001", "IMG_0002">>

TokenRank(t) == CHOOSE k \in 1 .. Len(TokenOrder) : TokenOrder[k] = t

\* strings.ToLower on an extension token
ToLower(t) == CASE t = ".JPG" -> ".jpg"
                [] t = ".CR2" -> ".cr2"
                [] OTHER -> t

IsExtToken(t) == TokenRank(t) > 1 /\ TokenRank(t) <= 6

Range(s) == {s[k] : k \in 1 .. Len(s)}

----------------------------------------------------------------------------
(* Helpers of main.go *)

\* filepath.Ext / path.Ext: the suffix starting at the final dot, or "".
getExtension(filename) ==
    IF Len(filename) > 0 /\ IsExtToken(filename[Len(filename)])
    THEN <<filename[Len(filename)]>>
    ELSE <<>>

getNameWithoutExtension(filename) ==
    SubSeq(filename, 1, Len(filename) - Len(getExtension(filename)))

isPictureFile(filename) ==
    LET extension == getExtension(filename)
    IN  Len(extension) = 1 /\ ToLower(extension[1]) \in pictureExtensionsWhitelist

\* strings.TrimRight(s, duplicateSuffix)
RECURSIVE TrimRight(_)
TrimRight(s) ==
    IF Len(s) > 0 /\ s[Len(s)] = duplicateSuffix
    THEN TrimRight(SubSeq(s, 1, Len(s) - 1))
    ELSE s

\* strings.Repeat(duplicateSuffix, n)
Repeat(n) == [k \in 1 .. n |-> duplicateSuffix]

GetFormattedDateTime(photoRename) ==
    <<dateTimeLayout[photoRename.PhotoCaptureTime + 1]>>

IsAlreadyFormatted(photoRename) ==
    GetFormattedDateTime(photoRename)
        = TrimRight(getNameWithoutExtension(photoRename.OriginalFilename))

GetFormattedFilename(photoRename, duplicateSuffixes) ==
    GetFormattedDateTime(photoRename) \o Repeat(duplicateSuffixes)
        \o getExtension(photoRename.OriginalFilename)

newPhotoRename(originalFilename, photoCaptureTime) ==
    [OriginalFilename |-> originalFilename,
     PhotoCaptureTime |-> photoCaptureTime,
     RenamedFilename  |-> <<>>]

\* StringSet
Contains(set, s) == s \in set
Add(set, s) == set \cup {s}

----------------------------------------------------------------------------
(* The metadata tool.  cmd.Output() gives an exit status and, when the     *)
(* output is JSON, an array of records whose CreateDate is absent (<<>>)   *)
(* or a string <<c>>.  A CreateDate string is [sec, offset], sec = -1 for  *)
(* a string that is no date at all.                                        *)

CreateDates == [sec : Seconds \cup {-1}, offset : {"", "+00:00"}]

ExifOutputs ==
    {[exit |-> 1, json |-> FALSE, data |-> <<>>],
     [exit |-> 0, json |-> FALSE, data |-> <<>>],
     [exit |-> 0, json |-> TRUE, data |-> <<>>],
     [exit |-> 0, json |-> TRUE, data |-> <<[CreateDate |-> <<>>]>>]}
    \cup {[exit |-> 0, json |-> TRUE, data |-> <<[CreateDate |-> <<c>>]>>] :
            c \in CreateDates}

\* parserFuncs[1]: layout with a zone offset; parserFuncs[2]: without, local time.
\* A time is kept as its wall-clock second, which is what Format prints.
parserFuncs(n, createDate) ==
    IF n = 1
    THEN IF createDate.sec >= 0 /\ createDate.offset # ""
         THEN [err |-> FALSE, dt |-> createDate.sec]
         ELSE [err |-> TRUE, dt |-> 0]
    ELSE IF createDate.sec >= 0 /\ createDate.offset = ""
         THEN [err |-> FALSE, dt |-> createDate.sec]
         ELSE [err |-> TRUE, dt |-> 0]

RECURSIVE tryParseFrom(_, _)
tryParseFrom(n, createDate) ==
    IF n > 2
    THEN [err |-> TRUE, dt |-> 0]
    ELSE IF ~parserFuncs(n, createDate).err
         THEN parserFuncs(n, createDate)
         ELSE tryParseFrom(n + 1, createDate)

tryParseDateTime(createDate) == tryParseFrom(1, createDate)

\* getPhotoDateTime without the nil check of line 156: dereferencing an absent
\* CreateDate panics.
getPhotoDateTime_NilDeref(out) ==
    IF out.exit # 0
    THEN [panic |-> "exiftool", err |-> TRUE, dt |-> 0]
    ELSE IF ~out.json
    THEN [panic |-> "json", err |-> TRUE, dt |-> 0]
    ELSE IF Len(out.data) = 0 \/ Len(out.data[1].CreateDate) = 0
    THEN [panic |-> "nil dereference", err |-> TRUE, dt |-> 0]
    ELSE LET parsed == tryParseDateTime(out.data[1].CreateDate[1])
         IN  [panic |-> "none", err |-> parsed.err, dt |-> parsed.dt]

\* getPhotoDateTime on the tool's result: panic (checkErr), an error, or a time.
getPhotoDateTime(out) ==
    IF out.exit # 0
    THEN [panic |-> "exiftool", err |-> TRUE, dt |-> 0]
    ELSE IF ~out.json
    THEN [panic |-> "json", err |-> TRUE, dt |-> 0]
    ELSE IF Len(out.data) = 0 \/ Len(out.data[1].CreateDate) = 0
    THEN [panic |-> "none", err |-> TRUE, dt |-> 0]
    ELSE LET parsed == tryParseDateTime(out.data[1].CreateDate[1])
         IN  [panic |-> "none", err |-> parsed.err, dt |-> parsed.dt]

----------------------------------------------------------------------------
(* The filesystem *)

fileExists(d, filename) == filename \in DOMAIN d

\* os.Rename inside one directory: moves the file, replacing an existing target.
osRename(d, oldName, newName, ioErr) ==
    IF ioErr \/ oldName \notin DOMAIN d
    THEN [dir |-> d, err |-> TRUE]
    ELSE [dir |-> [n \in (DOMAIN d \ {oldName}) \cup {newName} |->
                      IF n = newName THEN d[oldName] ELSE d[n]],
          err |-> FALSE]

\* Lexicographic order of names, token by token (the byte order of the strings).
RECURSIVE NameLess(_, _)
NameLess(a, b) ==
    IF Len(a) = 0 THEN Len(b) > 0
    ELSE IF Len(b) = 0 THEN FALSE
    ELSE IF a[1] # b[1] THEN TokenRank(a[1]) < TokenRank(b[1])
    ELSE NameLess(Tail(a), Tail(b))

\* os.ReadDir: the entries sorted by file name.
RECURSIVE ReadDir(_)
ReadDir(names) ==
    IF names = {} THEN <<>>
    ELSE LET first == CHOOSE n \in names : \A m \in names \ {n} : NameLess(n, m)
         IN  <<first>> \o ReadDir(names \ {first})

----------------------------------------------------------------------------
(* The bodies of the loops of main() and processRename *)

\* The classification loop without line 206: a photo that is already formatted
\* is not reserved.
ClassifyPicture_FormattedNotReserved(filename, out, final, renames) ==
    LET got == getPhotoDateTime(out)
        photoRename == newPhotoRename(filename, got.dt)
    IN  IF got.panic # "none"
        THEN [fatal |-> got.panic, finalFilenames |-> final, fileRenames |-> renames]
        ELSE IF got.err
        THEN [fatal |-> "none", finalFilenames |-> Add(final, filename),
              fileRenames |-> renames]
        ELSE IF IsAlreadyFormatted(photoRename)
        THEN [fatal |-> "none", finalFilenames |-> final, fileRenames |-> renames]
        ELSE [fatal |-> "none", finalFilenames |-> final,
              fileRenames |-> Append(renames, newPhotoRename(filename, got.dt))]

\* One pass of the classification loop (lines 188-211) over a picture file,
\* given the tool's result for it.
ClassifyPicture(filename, out, final, renames) ==
    LET got == getPhotoDateTime(out)
        photoRename == newPhotoRename(filename, got.dt)
    IN  IF got.panic # "none"
        THEN [fatal |-> got.panic, finalFilenames |-> final, fileRenames |-> renames]
        ELSE IF got.err
        THEN [fatal |-> "none", finalFilenames |-> Add(final, filename),
              fileRenames |-> renames]
        ELSE IF IsAlreadyFormatted(photoRename)
        THEN [fatal |-> "none", finalFilenames |-> Add(final, filename),
              fileRenames |-> renames]
        ELSE [fatal |-> "none", finalFilenames |-> final,
              fileRenames |-> Append(renames, newPhotoRename(filename, got.dt))]

\* The inner loop without the Contains test: the first name is taken as it is.
FirstFree_NoCheck(rename, final, dupeCount) == dupeCount

\* The inner loop of lines 215-225: the first dupeCount whose name is free.
RECURSIVE FirstFree(_, _, _)
FirstFree(rename, final, dupeCount) ==
    IF ~Contains(final, GetFormattedFilename(rename, dupeCount))
    THEN dupeCount
    ELSE FirstFree(rename, final, dupeCount + 1)

\* The sidecar loop without the test of lines 237-241 that the target is absent.
ExtendSidecar_NoTargetCheck(rename, d, statErr) ==
    LET metadataFilename ==
            getNameWithoutExtension(rename.OriginalFilename)
                \o <<"." \o metadataExtension>>
        newMetadataFilename ==
            getNameWithoutExtension(rename.RenamedFilename)
                \o <<"." \o metadataExtension>>
    IN  IF statErr
        THEN [fatal |-> "stat", add |-> <<>>]
        ELSE IF ~fileExists(d, metadataFilename)
        THEN [fatal |-> "none", add |-> <<>>]
        ELSE [fatal |-> "none",
              add |-> <<[OriginalFilename |-> metadataFilename,
                         PhotoCaptureTime |-> rename.PhotoCaptureTime,
                         RenamedFilename  |-> newMetadataFilename]>>]

\* One pass of the sidecar loop (lines 229-247): log.Fatalf, or zero or one
\* metadata rename to append.
ExtendSidecar(rename, d, statErr) ==
    LET metadataFilename ==
            getNameWithoutExtension(rename.OriginalFilename)
                \o <<"." \o metadataExtension>>
        newMetadataFilename ==
            getNameWithoutExtension(rename.RenamedFilename)
                \o <<"." \o metadataExtension>>
    IN  IF statErr
        THEN [fatal |-> "stat", add |-> <<>>]
        ELSE IF ~fileExists(d, metadataFilename)
        THEN [fatal |-> "none", add |-> <<>>]
        ELSE IF fileExists(d, newMetadataFilename)
        THEN [fatal |-> "metadata exists", add |-> <<>>]
        ELSE [fatal |-> "none",
              add |-> <<[OriginalFilename |-> metadataFilename,
                         PhotoCaptureTime |-> rename.PhotoCaptureTime,
                         RenamedFilename  |-> newMetadataFilename]>>]

\* processRename without the test of lines 277-282 that the target is absent.
processRename_NoExistsCheck(rename, d, dry, fault) ==
    IF fault = "stat"
    THEN [fatal |-> "stat", dir |-> d, logged |-> FALSE, err |-> FALSE]
    ELSE IF dry
    THEN [fatal |-> "none", dir |-> d, logged |-> TRUE, err |-> FALSE]
    ELSE LET res == osRename(d, rename.OriginalFilename, rename.RenamedFilename,
                             fault = "rename")
         IN  [fatal |-> "none", dir |-> res.dir, logged |-> TRUE, err |-> res.err]

\* processRename (lines 272-290).  fault: "none", "stat" (os.Stat fails) or
\* "rename" (os.Rename fails).  The error of os.Rename is assigned and dropped.
processRename(rename, d, dry, fault) ==
    IF fault = "stat"
    THEN [fatal |-> "stat", dir |-> d, logged |-> FALSE, err |-> FALSE]
    ELSE IF fileExists(d, rename.RenamedFilename)
    THEN [fatal |-> "renamed file exists", dir |-> d, logged |-> FALSE, err |-> FALSE]
    ELSE IF dry
    THEN [fatal |-> "none", dir |-> d, logged |-> TRUE, err |-> FALSE]
    ELSE LET res == osRename(d, rename.OriginalFilename, rename.RenamedFilename,
                             fault = "rename")
         IN  [fatal |-> "none", dir |-> res.dir, logged |-> TRUE, err |-> res.err]

----------------------------------------------------------------------------
(* Directories the run may start from *)

\* Camera names carry no suffix; names that start with a date carry up to MaxDash.
Names ==
    {<<"IMG_0001", ext>> : ext \in Extensions}
    \cup {<<dateTimeLayout[k]>> \o Repeat(n) \o <<ext>> :
            k \in 1 .. Len(dateTimeLayout), n \in 0 .. MaxDash, ext \in Extensions}

RECURSIVE NameSets(_)
NameSets(k) ==
    IF k = 0 THEN {{}}
    ELSE NameSets(k - 1)
         \cup {s \cup {n} : s \in NameSets(k - 1), n \in Names}

Directories == {[n \in s |-> n] : s \in NameSets(MaxFiles)}

Faults == {"none", "stat", "rename"}

----------------------------------------------------------------------------
(* The run *)

Init ==
    /\ dir0 \in Directories
    /\ dir = dir0
    /\ dryRun \in BOOLEAN
    /\ exifOut = <<>>
    /\ pc = "readdir"
    /\ fatal = "none"
    /\ fileInfos = <<>>
    /\ idx = 1
    /\ finalFilenames = {}
    /\ fileRenames = <<>>
    /\ metadataRenames = <<>>
    /\ renameLog = <<>>
    /\ renameErrs = {}
    /\ ioErrs = 0

\* lines 180-181
ListDirectory ==
    /\ pc = "readdir" /\ fatal = "none"
    /\ \E ioErr \in BOOLEAN :
        /\ ioErr => ioErrs < MaxIoErrors
        /\ IF ioErr
           THEN /\ fatal' = "readdir"
                /\ ioErrs' = ioErrs + 1
                /\ UNCHANGED <<pc, fileInfos>>
           ELSE /\ fileInfos' = ReadDir(DOMAIN dir)
                /\ pc' = "classify"
                /\ UNCHANGED <<fatal, ioErrs>>
    /\ UNCHANGED <<dir, dir0, exifOut, dryRun, idx, finalFilenames, fileRenames,
                   metadataRenames, renameLog, renameErrs>>

\* lines 148-149: the tool runs on the picture file at hand
Exiftool ==
    /\ pc = "classify" /\ fatal = "none"
    /\ idx <= Len(fileInfos)
    /\ isPictureFile(fileInfos[idx])
    /\ exifOut = <<>>
    /\ \E out \in ExifOutputs : exifOut' = <<out>>
    /\ UNCHANGED <<dir, dir0, dryRun, pc, fatal, fileInfos, idx, finalFilenames,
                   fileRenames, metadataRenames, renameLog, renameErrs, ioErrs>>

\* lines 188-211, one file
ClassifyFile ==
    /\ pc = "classify" /\ fatal = "none"
    /\ idx <= Len(fileInfos)
    /\ LET filename == fileInfos[idx]
       IN  IF ~isPictureFile(filename)
           THEN /\ idx' = idx + 1
                /\ UNCHANGED <<fatal, exifOut, finalFilenames, fileRenames>>
           ELSE /\ exifOut # <<>>
                /\ LET res == ClassifyPicture(filename, exifOut[1],
                                              finalFilenames, fileRenames)
                   IN  /\ fatal' = res.fatal
                       /\ finalFilenames' = res.finalFilenames
                       /\ fileRenames' = res.fileRenames
                       /\ exifOut' = <<>>
                       /\ idx' = IF res.fatal = "none" THEN idx + 1 ELSE idx
    /\ UNCHANGED <<dir, dir0, dryRun, pc, fileInfos, metadataRenames, renameLog,
                   renameErrs, ioErrs>>

\* lines 213-226, one rename
ResolveCollision ==
    /\ pc = "resolve" /\ fatal = "none"
    /\ idx <= Len(fileRenames)
    /\ LET rename == fileRenames[idx]
           formattedFilename ==
               GetFormattedFilename(rename, FirstFree(rename, finalFilenames, 0))
       IN  /\ finalFilenames' = Add(finalFilenames, formattedFilename)
           /\ fileRenames' =
                  [fileRenames EXCEPT ![idx].RenamedFilename = formattedFilename]
    /\ idx' = idx + 1
    /\ UNCHANGED <<dir, dir0, exifOut, dryRun, pc, fatal, fileInfos,
                   metadataRenames, renameLog, renameErrs, ioErrs>>

\* lines 229-247, one rename
SidecarStep ==
    /\ pc = "sidecar" /\ fatal = "none"
    /\ idx <= Len(fileRenames)
    /\ \E statErr \in BOOLEAN :
        /\ statErr => ioErrs < MaxIoErrors
        /\ LET res == ExtendSidecar(fileRenames[idx], dir, statErr)
           IN  /\ fatal' = res.fatal
               /\ metadataRenames' = metadataRenames \o res.add
               /\ idx' = IF res.fatal = "none" THEN idx + 1 ELSE idx
        /\ ioErrs' = IF statErr THEN ioErrs + 1 ELSE ioErrs
    /\ UNCHANGED <<dir, dir0, exifOut, dryRun, pc, fileInfos, finalFilenames,
                   fileRenames, renameLog, renameErrs>>

\* lines 250-255, one rename
ExecuteRename ==
    /\ pc = "exec" /\ fatal = "none"
    /\ idx <= Len(fileRenames)
    /\ LET rename == fileRenames[idx]
       IN  IF Len(rename.RenamedFilename) = 0
           THEN /\ fatal' = "invalid rename"
                /\ UNCHANGED <<dir, idx, renameLog, renameErrs, ioErrs>>
           ELSE \E fault \in Faults :
                /\ fault # "none" => ioErrs < MaxIoErrors
                /\ fault = "rename" => ~dryRun
                /\ LET res == processRename(rename, dir, dryRun, fault)
                   IN  /\ fatal' = res.fatal
                       /\ dir' = res.dir
                       /\ renameLog' =
                              IF res.logged
                              THEN Append(renameLog, <<rename.OriginalFilename,
                                                       rename.RenamedFilename>>)
                              ELSE renameLog
                       /\ renameErrs' =
                              IF res.err THEN renameErrs \cup {idx} ELSE renameErrs
                       /\ idx' = IF res.fatal = "none" THEN idx + 1 ELSE idx
                /\ ioErrs' = IF fault = "none" THEN ioErrs ELSE ioErrs + 1
    /\ UNCHANGED <<dir0, exifOut, dryRun, pc, fileInfos, finalFilenames,
                   fileRenames, metadataRenames>>

\* A loop of main() ends and the next one starts; line 248 joins the two lists.
NextLoop ==
    /\ fatal = "none"
    /\ \/ pc = "classify" /\ idx > Len(fileInfos)
       \/ pc \in {"resolve", "sidecar", "exec"} /\ idx > Len(fileRenames)
    /\ pc' = CASE pc = "classify" -> "resolve"
               [] pc = "resolve" -> "sidecar"
               [] pc = "sidecar" -> "exec"
               [] pc = "exec" -> "done"
    /\ idx' = 1
    /\ fileRenames' = IF pc = "sidecar"
                      THEN fileRenames \o metadataRenames
                      ELSE fileRenames
    /\ UNCHANGED <<dir, dir0, exifOut, dryRun, fatal, fileInfos, finalFilenames,
                   metadataRenames, renameLog, renameErrs, ioErrs>>

Next ==
    \/ ListDirectory
    \/ Exiftool
    \/ ClassifyFile
    \/ ResolveCollision
    \/ SidecarStep
    \/ ExecuteRename
    \/ NextLoop

Spec == Init /\ [][Next]_vars

----------------------------------------------------------------------------
(* Vocabulary of the properties *)

D0 == dateTimeLayout[1]
D1 == dateTimeLayout[2]
Sidecar == "." \o metadataExtension

Planned == pc \in {"exec", "done"}
Resolved == pc \in {"sidecar", "exec", "done"}

PhotoIndices == {j \in 1 .. Len(fileRenames) : isPictureFile(fileRenames[j].OriginalFilename)}

\* photo candidates that were listed and are not pending a rename
KeptAsIs ==
    {f \in Range(fileInfos) :
        /\ isPictureFile(f)
        /\ \A j \in 1 .. Len(fileRenames) : fileRenames[j].OriginalFilename # f}

SuffixLen(rename) ==
    Len(rename.RenamedFilename) - 1 - Len(getExtension(rename.OriginalFilename))

SameGroup(a, b) ==
    /\ a.PhotoCaptureTime = b.PhotoCaptureTime
    /\ getExtension(a.OriginalFilename) = getExtension(b.OriginalFilename)

\* the name under which the file that started as f is found now
NowNamed(f) == CHOOSE n \in DOMAIN dir : dir[n] = f

\* the renames that took place: logged, and os.Rename returned no error
Performed ==
    LET kept == {k \in 1 .. Len(renameLog) : k \notin renameErrs}
        F[k \in 0 .. Len(renameLog)] ==
            IF k = 0 THEN <<>>
            ELSE IF k \in kept THEN Append(F[k - 1], renameLog[k]) ELSE F[k - 1]
    IN  F[Len(renameLog)]

\* The execution loop run as a dry run over the plan, on directory d, from entry k.
RECURSIVE Preview(_, _, _)
Preview(renames, d, k) ==
    IF k > Len(renames)
    THEN [log |-> <<>>, fatal |-> "none"]
    ELSE LET res == processRename(renames[k], d, TRUE, "none")
         IN  IF res.fatal # "none"
             THEN [log |-> <<>>, fatal |-> res.fatal]
             ELSE LET rest == Preview(renames, d, k + 1)
                  IN  [log |-> <<<<renames[k].OriginalFilename,
                                   renames[k].RenamedFilename>>>> \o rest.log,
                       fatal |-> rest.fatal]

RunEnded == pc = "done" \/ fatal # "none"

----------------------------------------------------------------------------
(* C1 *)

\* C1 (as stated): after planning no two entries of the plan, photo or sidecar,
\* have the same assigned name, and no assigned name is the name of a kept file.
C1_PlanNamesUnique ==
    Planned =>
        /\ \A j, k \in 1 .. Len(fileRenames) :
              j # k => fileRenames[j].RenamedFilename # fileRenames[k].RenamedFilename
        /\ \A j \in 1 .. Len(fileRenames) :
              fileRenames[j].RenamedFilename \notin KeptAsIs

----------------------------------------------------------------------------
(* C2 *)

\* the ways metadata extraction fails, read off the tool's result
ToolExitNonZero(out) == out.exit # 0
OutputMalformed(out) == out.exit = 0 /\ ~out.json
DateAbsent(out) ==
    /\ out.exit = 0 /\ out.json
    /\ (Len(out.data) = 0 \/ Len(out.data[1].CreateDate) = 0)
NoGrammarMatches(out) ==
    /\ out.exit = 0 /\ out.json /\ Len(out.data) > 0
    /\ Len(out.data[1].CreateDate) = 1
    /\ out.data[1].CreateDate[1].sec = -1

AtExtraction == pc = "classify" /\ fatal = "none" /\ exifOut # <<>>

\* the file at hand is kept under its own name and the batch goes on
KeptAndContinues ==
    /\ fatal' = "none"
    /\ pc' = pc /\ idx' = idx + 1
    /\ finalFilenames' = finalFilenames \cup {fileInfos[idx]}
    /\ fileRenames' = fileRenames
    /\ dir' = dir

\* C2 (as stated): every one of the four extraction failures is recoverable:
\* the file is reserved under its own name, stays out of the rename list, and
\* the batch continues.
C2_AllFailuresRecoverable ==
    [][(AtExtraction /\ (\/ ToolExitNonZero(exifOut[1])
                         \/ OutputMalformed(exifOut[1])
                         \/ DateAbsent(exifOut[1])
                         \/ NoGrammarMatches(exifOut[1])))
        => KeptAndContinues]_vars

\* C2 (amended): an absent capture date and a date string no grammar matches
\* are recoverable (file reserved under its own name, not in the rename list,
\* batch continues); a tool that exits non-zero or prints malformed output
\* aborts the run at that file, with nothing reserved or renamed for it.
C2_AbsentOrUnparsedRecoverable ==
    [][/\ (AtExtraction /\ (DateAbsent(exifOut[1]) \/ NoGrammarMatches(exifOut[1])))
          => KeptAndContinues
       /\ (AtExtraction /\ (ToolExitNonZero(exifOut[1]) \/ OutputMalformed(exifOut[1])))
          => /\ fatal' \in {"exiftool", "json"}
             /\ idx' = idx
             /\ finalFilenames' = finalFilenames
             /\ fileRenames' = fileRenames
             /\ dir' = dir]_vars

\* A camera-named photo can only be reserved because its extraction failed;
\* here it was, and the batch went on to rename another file.
C2_Witness ==
    /\ pc = "done" /\ ~dryRun
    /\ <<"IMG_0001", ".jpg">> \in finalFilenames
    /\ <<"IMG_0001", ".jpg">> \in DOMAIN dir
    /\ Len(renameLog) > 0

----------------------------------------------------------------------------
(* C3 *)

\* C3 (as stated): when a real run has completed, a sidecar has been renamed
\* iff its companion photo has been, and then to the photo's new name with
\* the sidecar extension in place of the photo's.
C3_SidecarLockstep ==
    (pc = "done" /\ ~dryRun /\ ioErrs = 0) =>
        \A p \in DOMAIN dir0 :
            LET s == getNameWithoutExtension(p) \o <<Sidecar>>
            IN  (isPictureFile(p) /\ s \in DOMAIN dir0) =>
                    /\ (NowNamed(s) # s) <=> (NowNamed(p) # p)
                    /\ NowNamed(s) # s =>
                          NowNamed(s) = getNameWithoutExtension(NowNamed(p)) \o <<Sidecar>>

----------------------------------------------------------------------------
(* C4 *)

\* C4 (as stated): the pending photos that share one capture time get the
\* suffix lengths 0, 1, 2, ... in discovery order, whatever else is there.
C4_SuffixesFromZero ==
    Resolved =>
        \A j \in PhotoIndices :
            SuffixLen(fileRenames[j]) =
                Cardinality({k \in PhotoIndices :
                    /\ k < j
                    /\ fileRenames[k].PhotoCaptureTime = fileRenames[j].PhotoCaptureTime})

\* names of the group of rename r that a kept file holds
KeptInGroup(r) ==
    {f \in KeptAsIs : \E n \in 0 .. Len(f) : f = GetFormattedFilename(r, n)}

\* C4 (amended): the pending photos that share one capture time and one
\* extension get distinct names whose suffix lengths grow strictly in
\* discovery order; the lengths are exactly 0, 1, ..., N-1 when no kept file
\* holds a name of that time and extension; and with 2021-05-01_10-00-00.jpg
\* kept as it is, two pending .jpg photos of that time get
\* 2021-05-01_10-00-00-.jpg and 2021-05-01_10-00-00--.jpg.
C4_SuffixesGrow ==
    Resolved =>
        /\ \A j, k \in PhotoIndices :
              (j < k /\ SameGroup(fileRenames[j], fileRenames[k])) =>
                  /\ SuffixLen(fileRenames[j]) < SuffixLen(fileRenames[k])
                  /\ fileRenames[j].RenamedFilename # fileRenames[k].RenamedFilename
        /\ \A j \in PhotoIndices :
              KeptInGroup(fileRenames[j]) = {} =>
                  SuffixLen(fileRenames[j]) =
                      Cardinality({k \in PhotoIndices :
                          k < j /\ SameGroup(fileRenames[k], fileRenames[j])})
        /\ \A j, k \in PhotoIndices :
              (/\ j < k
               /\ KeptInGroup(fileRenames[j]) = {<<D0, ".jpg">>}
               /\ SameGroup(fileRenames[j], fileRenames[k])
               /\ \A m \in PhotoIndices :
                     SameGroup(fileRenames[m], fileRenames[j]) => m \in {j, k})
              => /\ fileRenames[j].RenamedFilename = <<D0, "-", ".jpg">>
                 /\ fileRenames[k].RenamedFilename = <<D0, "-", "-", ".jpg">>

\* the scenario: the canonical file is kept, two photos of its time are pending
C4_Witness ==
    /\ pc = "done"
    /\ <<D0, ".jpg">> \in KeptAsIs
    /\ Len(fileRenames) = 2
    /\ fileRenames[1].RenamedFilename = <<D0, "-", ".jpg">>
    /\ fileRenames[2].RenamedFilename = <<D0, "-", "-", ".jpg">>

----------------------------------------------------------------------------
(* C5 *)

\* C5 (as stated): a dry run changes nothing, and what a dry run started on the
\* same directory logs and whether it aborts is what the real run performs
\* and whether it aborts.
C5_DryRunIsPreview ==
    /\ dryRun => dir = dir0
    /\ (~dryRun /\ ioErrs = 0 /\ pc \in {"exec", "done"} /\ RunEnded) =>
          LET dry == Preview(fileRenames, dir0, 1)
          IN  /\ Performed = dry.log
              /\ (fatal # "none") <=> (dry.fatal # "none")

----------------------------------------------------------------------------
(* C6 *)

\* C6 (as stated): once os.Rename has returned an error the run is aborted.
C6_RenameErrorFatal == renameErrs # {} => fatal # "none"

----------------------------------------------------------------------------
(* C7 *)

SidecarConflict(j) ==
    /\ j \in PhotoIndices
    /\ Len(fileRenames[j].RenamedFilename) > 0
    /\ getNameWithoutExtension(fileRenames[j].OriginalFilename) \o <<Sidecar>>
          \in DOMAIN dir0
    /\ getNameWithoutExtension(fileRenames[j].RenamedFilename) \o <<Sidecar>>
          \in DOMAIN dir0

\* C7: when the sidecar of a pending photo exists and a file with the
\* sidecar's target name exists too, the run never gets past the planning of
\* that photo's sidecar: nothing is renamed or logged as renamed and the
\* directory is as it was.
C7_SidecarConflictAborts ==
    \A j \in 1 .. Len(fileRenames) :
        SidecarConflict(j) =>
            /\ pc = "resolve" \/ (pc = "sidecar" /\ idx <= j)
            /\ dir = dir0
            /\ renameLog = <<>>

C7_Witness ==
    /\ fatal = "metadata exists"
    /\ pc = "sidecar"
    /\ SidecarConflict(idx)
    /\ dir = dir0

----------------------------------------------------------------------------
(* C8 *)

\* C8 (as stated): after collision resolution the reserved set has one name
\* per file listed.
C8_OnePerFile == Resolved => Cardinality(finalFilenames) = Len(fileInfos)

\* C8 (amended): after collision resolution the reserved set has one name per
\* photo candidate listed, renamed or not; files that are no photo candidates
\* are not reserved.
C8_OnePerPhotoCandidate ==
    Resolved =>
        Cardinality(finalFilenames)
            = Cardinality({f \in Range(fileInfos) : isPictureFile(f)})

\* a kept photo, a renamed photo and a file that is no photo candidate
C8_Witness ==
    /\ Resolved
    /\ KeptAsIs # {}
    /\ Len(fileRenames) > 0
    /\ \E f \in Range(fileInfos) : ~isPictureFile(f)

----------------------------------------------------------------------------
(* C9 *)

\* C9 (as stated): in a real run, with no I/O error, the check of
\* processRename that the target is absent never fires.
C9_TargetCheckNeverFires ==
    ~(~dryRun /\ ioErrs = 0 /\ fatal = "renamed file exists")

----------------------------------------------------------------------------
(* C10 *)

\* C10: no run overwrites or loses a file: the directory always holds as many
\* files as at the start, and every file of the start is in it under some name.
C10_NoFileLost ==
    /\ Cardinality(DOMAIN dir) = Cardinality(DOMAIN dir0)
    /\ {dir[n] : n \in DOMAIN dir} = DOMAIN dir0

\* a real run that renamed a file, had a rename fail and then aborted
C10_Witness ==
    /\ ~dryRun
    /\ fatal = "renamed file exists"
    /\ dir # dir0
    /\ renameErrs # {}

====
